---- MODULE Spec2Model ----
(***************************************************************************)
(* The filter-and-aggregate pipeline of the COVID-19 mortality dashboard.   *)
(* The repository holds two scripts, src/code.py and src/covid.py; the     *)
(* second is the first without the label map for regions (it filters and   *)
(* groups on the raw region code), without the median/mode statistics and  *)
(* without the country map.  The variable script says which one runs.      *)
(*                                                                         *)
(* One run of the script is a straight line: load (cached), read the five  *)
(* sidebar controls, filter, stop on an empty view, then the KPI block,    *)
(* the time series, the heatmap, the country map and the region bar chart. *)
(* Every change of a sidebar control re-runs the script from the top with  *)
(* the cached dataset.  The raw-table checkbox and the captions only       *)
(* display what the run has computed and are left out.                     *)
(*                                                                         *)
(* The en dash of the age labels is written "-" here: the module's strings *)
(* are ASCII.  Code-point order of the labels is unchanged by that.        *)
(***************************************************************************)
EXTENDS Integers, Sequences, FiniteSets, TLC

\* Bound: the most rows a source file of the model holds.
MaxRows == 2

\* A blank/missing text cell as pandas reads it.
NaN == "NaN"
\* A blank Deaths cell (the cell is a number or missing).
NaNDeaths == -1
\* An unset timestamp (errors="coerce").
NaT == -1
\* Python's None; also held by the numeric names a run has not assigned yet.
None == -1

(***************************************************************************)
(* The source file.                                                        *)
(***************************************************************************)
CsvRow(c, r, w, y, m, a, d) ==
    [Country |-> c, Who_region |-> r, Wb_income |-> w,
     Year |-> y, Month |-> m, Agegroup |-> a, Deaths |-> d]

\* The rows a source file of the model is drawn from.  They cover: a blank
\* country and the literal "Unknown"; a blank and an unmapped region code; a
\* blank income group; a month that is no month; an unmapped age code; blank
\* and zero deaths; equal sums in two age groups; dates 13 months apart.
\* Every row has a year and an age code, as the input format requires (the
\* sidebar sorts the age labels and takes int() of the smallest year before
\* any filtering).
Catalogue ==
    << CsvRow("US",      "AMR", "High", 2020, 1,  "65+",   2),
       CsvRow("US",      "AMR", "High", 2021, 2,  "0_4",   2),
       CsvRow("FR",      "EUR", "High", 2021, 13, "65+",   1),
       CsvRow("FR",      "EUR", "High", 2020, 1,  "0_4",   0),
       CsvRow("Unknown", NaN,   "Low",  2020, 13, "15_64", 3),
       CsvRow(NaN,       "OTH", NaN,    2021, 1,  "80+",   NaNDeaths),
       CsvRow("NG",      "AFR", "Low",  2021, 1,  "65+",   0),
       CsvRow("NG",      "AFR", "Low",  2020, 2,  "15_64", 1) >>

\* The members of a set of indices in increasing order.
Ascending(I) ==
    [k \in 1..Cardinality(I) |->
        CHOOSE i \in I : Cardinality({j \in I : j < i}) = k - 1]

\* The source files of the model: the non-empty selections of at most MaxRows
\* catalogue rows, in catalogue order.  (An empty file stops the script at the
\* year slider, int(NaN), before any filtering.)
CsvFiles ==
    { [k \in 1..Cardinality(I) |-> Catalogue[Ascending(I)[k]]] :
        I \in { J \in SUBSET (1..Len(Catalogue)) :
                    Cardinality(J) >= 1 /\ Cardinality(J) <= MaxRows } }

(***************************************************************************)
(* load_data                                                               *)
(***************************************************************************)
age_map ==
    ("0_4" :> "0-4") @@ ("5_14" :> "5-14") @@ ("15_64" :> "15-64") @@ ("65+" :> "65+")

region_map ==
    ("AFR" :> "African Region") @@ ("AMR" :> "Region of the Americas") @@
    ("EMR" :> "Eastern Mediterranean Region") @@ ("EUR" :> "European Region") @@
    ("SEAR" :> "South-East Asia Region") @@ ("WPR" :> "Western Pacific Region")

\* Series.map(m).fillna(original): a key of m maps, anything else (a missing
\* cell included) keeps its own value.
MapFillna(m, v) == IF v \in DOMAIN m THEN m[v] ELSE v

\* df["Deaths"].fillna(0)
FillDeaths(d) == IF d = NaNDeaths THEN 0 ELSE d

\* pd.to_datetime("<Year>-<Month>-01", errors="coerce"): the first of the
\* month, counted in months, or NaT when the month is no month.
ToDatetime(y, m) == IF m >= 1 /\ m <= 12 THEN y * 12 + (m - 1) ELSE NaT

Scripts == {"code.py", "covid.py"}

\* The row with its derived columns; only code.py derives Who_region_pretty.
LoadRow(s, r) ==
    LET base == [Country |-> r.Country, Who_region |-> r.Who_region,
                 Wb_income |-> r.Wb_income,
                 Year |-> r.Year, Month |-> r.Month, Agegroup |-> r.Agegroup,
                 Deaths |-> FillDeaths(r.Deaths),
                 Date |-> ToDatetime(r.Year, r.Month),
                 Agegroup_pretty |-> MapFillna(age_map, r.Agegroup)]
    IN  IF s = "code.py"
        THEN base @@ [Who_region_pretty |-> MapFillna(region_map, r.Who_region)]
        ELSE base

load_data(s, file) == [i \in 1..Len(file) |-> LoadRow(s, file[i])]

\* The region column the script filters and groups on.
RegionLabel(s, r) == IF s = "code.py" THEN r.Who_region_pretty ELSE r.Who_region

(***************************************************************************)
(* Helpers on tables (sequences of rows).                                  *)
(***************************************************************************)
Rows(t) == {t[i] : i \in 1..Len(t)}

RECURSIVE SumDeaths(_)
\* Series.sum() of the Deaths column.
SumDeaths(t) == IF t = <<>> THEN 0 ELSE Head(t).Deaths + SumDeaths(Tail(t))

(***************************************************************************)
(* The sidebar: the options each control offers for a dataset.             *)
(***************************************************************************)
AllRegions == "All regions"
AllIncome == "All income levels"

regions(s, d) == {AllRegions} \cup ({RegionLabel(s, r) : r \in Rows(d)} \ {NaN})
income_levels(d) == {AllIncome} \cup ({r.Wb_income : r \in Rows(d)} \ {NaN})
countries_all(d) == {r.Country : r \in Rows(d)} \ {NaN}
agegroups_all(d) == {r.Agegroup_pretty : r \in Rows(d)}
year_min(d) == CHOOSE y \in {r.Year : r \in Rows(d)} : \A r \in Rows(d) : y <= r.Year
year_max(d) == CHOOSE y \in {r.Year : r \in Rows(d)} : \A r \in Rows(d) : y >= r.Year
year_ranges(d) ==
    {p \in (year_min(d)..year_max(d)) \X (year_min(d)..year_max(d)) : p[1] <= p[2]}

VARIABLES
    script,              \* which of the two scripts runs
    csv,                 \* the source file on disk
    df,                  \* load_data()'s cached result
    sort_impl,           \* how the installed pandas orders ties in Series.sort_values
    region_selected, income_selected, countries_selected,
    agegroups_selected, year_range,
    pc,                  \* where the run of the script is
    filtered,
    total_deaths, recent_deaths, age_summary, top_agegroup, top_age_deaths,
    ts, median_deaths, mode_values, mode_deaths,
    heat, pivot, map_data, region_deaths,
    rendered             \* the elements the run has put on the page, in order

controls == <<region_selected, income_selected, countries_selected,
              agegroups_selected, year_range>>
kpi == <<total_deaths, recent_deaths, age_summary, top_agegroup, top_age_deaths>>
series == <<ts, median_deaths, mode_values, mode_deaths>>
charts == <<heat, pivot, map_data, region_deaths>>
vars == <<script, csv, df, sort_impl, controls, pc, filtered, kpi, series, charts, rendered>>

(***************************************************************************)
(* Filtering (the five masks, applied one after the other).                *)
(***************************************************************************)
RegionFilter(s, f, region) ==
    IF region # AllRegions
    THEN SelectSeq(f, LAMBDA r : RegionLabel(s, r) = region)
    ELSE f

IncomeFilter(f, income) ==
    IF income # AllIncome
    THEN SelectSeq(f, LAMBDA r : r.Wb_income = income)
    ELSE f


\* CountryFilter without its guard.
CountryFilterUnguarded(f, countries) ==
    SelectSeq(f, LAMBDA r : r.Country \in countries)

CountryFilter(f, countries) ==
    IF countries # {}
    THEN SelectSeq(f, LAMBDA r : r.Country \in countries)
    ELSE f


\* AgeFilter without its guard: an empty selection then keeps no row.
AgeFilterUnguarded(f, agegroups) ==
    SelectSeq(f, LAMBDA r : r.Agegroup_pretty \in agegroups)

AgeFilter(f, agegroups) ==
    IF agegroups # {}
    THEN SelectSeq(f, LAMBDA r : r.Agegroup_pretty \in agegroups)
    ELSE f


\* YearFilter with the upper end of the range left out.
YearFilterExclusive(f, yr) ==
    SelectSeq(f, LAMBDA r : r.Year >= yr[1] /\ r.Year < yr[2])

YearFilter(f, yr) ==
    SelectSeq(f, LAMBDA r : r.Year >= yr[1] /\ r.Year <= yr[2])

ApplyFilterMasks(s, d, region, income, countries, agegroups, yr) ==
    YearFilter(
        AgeFilter(
            CountryFilter(
                IncomeFilter(
                    RegionFilter(s, d, region),
                    income),
                countries),
            agegroups),
        yr)

(***************************************************************************)
(* Grouping and sorting as pandas does them.                               *)
(***************************************************************************)
\* Python's order of the strings that occur as group keys (code points).
StrOrder ==
    << "0-4", "15-64", "5-14", "65+", "80+",
       "AFR", "AMR", "African Region", "EMR", "EUR",
       "Eastern Mediterranean Region", "European Region",
       "FR", "NG", "OTH", "Region of the Americas",
       "SEAR", "South-East Asia Region", "US", "Unknown", "WPR",
       "Western Pacific Region" >>

StrRank(s) == CHOOSE i \in 1..Len(StrOrder) : StrOrder[i] = s

\* The positions 1..n as a set of pairs.
Pairs(n) == (1..n) \X (1..n)

\* The ranks of a set of label strings in Python's order.
StrRanks(S) == [k \in S |-> StrRank(k)]

\* t.groupby(keys)["Deaths"].sum(): key[i] is the group key of row i and rank
\* the sort order of the keys that are not null.  One row per key value, the
\* rows whose key is null left out (dropna=True), key values in sorted order
\* (sort=True).
GroupBySum(t, key, rank) ==
    LET K == {key[i] : i \in 1..Len(t)} \cap DOMAIN rank
        ord == [i \in 1..Cardinality(K) |->
                   CHOOSE k \in K : Cardinality({x \in K : rank[x] < rank[k]}) = i - 1]
        keyed == [i \in 1..Len(t) |-> [key |-> key[i], Deaths |-> t[i].Deaths]]
    IN  [i \in 1..Cardinality(K) |->
            [key |-> ord[i],
             Deaths |-> SumDeaths(SelectSeq(keyed, LAMBDA r : r.key = ord[i]))]]

\* The sequence s with its rows in the order that the pairs <<j, i>> of
\* before ("position j comes before position i") put them in.
Reorder(s, before) ==
    [k \in 1..Len(s) |->
        s[CHOOSE i \in 1..Len(s) :
              Cardinality({j \in 1..Len(s) : <<j, i>> \in before}) = k - 1]]

\* Series.sort_values(ascending=False) on the Deaths values.  "nargsort":
\* reverse, stable argsort, reverse again, so ties keep their order.
\* "argsort_reversed" (pandas before 1.2): argsort, then reversed, so ties
\* come out in reverse order.
SeriesSortValuesDesc(s, impl) ==
    Reorder(s, {p \in Pairs(Len(s)) :
        \/ s[p[1]].Deaths > s[p[2]].Deaths
        \/ /\ s[p[1]].Deaths = s[p[2]].Deaths
           /\ IF impl = "nargsort" THEN p[1] < p[2] ELSE p[1] > p[2]})

\* DataFrame.sort_values("Deaths", ascending=False): nargsort.
FrameSortValuesDesc(s) == SeriesSortValuesDesc(s, "nargsort")

\* DataFrame.sort_values("Date") of the grouped time series (key = <<Date, label>>).
SortByDate(s) ==
    Reorder(s, {p \in Pairs(Len(s)) :
        \/ s[p[1]].key[1] < s[p[2]].key[1]
        \/ s[p[1]].key[1] = s[p[2]].key[1] /\ p[1] < p[2]})

(***************************************************************************)
(* The KPI block.                                                          *)
(***************************************************************************)
\* filtered["Date"].max(): NaT is skipped; NaT when no date is set.
MaxDate(t) ==
    LET D == {r.Date : r \in Rows(t)} \ {NaT}
    IN  IF D = {} THEN NaT ELSE CHOOSE d \in D : \A e \in D : d >= e

\* max_date - pd.DateOffset(months=12)
Last12MonthsStart(t) == IF MaxDate(t) = NaT THEN NaT ELSE MaxDate(t) - 12

\* filtered[filtered["Date"] >= last_12_months_start]: a comparison with NaT
\* on either side is False.
Recent(t) ==
    SelectSeq(t, LAMBDA r : /\ r.Date # NaT
                            /\ Last12MonthsStart(t) # NaT
                            /\ r.Date >= Last12MonthsStart(t))

AgeGroupSums(t) ==
    GroupBySum(t,
               [i \in 1..Len(t) |-> t[i].Agegroup_pretty],
               StrRanks({r.Agegroup_pretty : r \in Rows(t)} \ {NaN}))


\* AgeSummary sorted ascending (ascending=False forgotten).
AgeSummaryAscending(t, impl) ==
    Reorder(AgeGroupSums(t), {p \in Pairs(Len(AgeGroupSums(t))) :
        \/ AgeGroupSums(t)[p[1]].Deaths < AgeGroupSums(t)[p[2]].Deaths
        \/ /\ AgeGroupSums(t)[p[1]].Deaths = AgeGroupSums(t)[p[2]].Deaths
           /\ p[1] < p[2]})

AgeSummary(t, impl) == SeriesSortValuesDesc(AgeGroupSums(t), impl)

(***************************************************************************)
(* The time series and its statistics.                                     *)
(***************************************************************************)
\* The order of the keys <<number, label>> that have no null part: by the
\* number, then by the label.  nullnumber is the null of the number column
\* (NaT for dates; the years of the model are never null).
PairRanks(S, nullnumber) ==
    [k \in {x \in S : x[1] # nullnumber /\ x[2] # NaN} |->
        k[1] * (Len(StrOrder) + 1) + StrRank(k[2])]

TimeSeries(t) ==
    SortByDate(
        GroupBySum(t,
                   [i \in 1..Len(t) |-> <<t[i].Date, t[i].Agegroup_pretty>>],
                   PairRanks({<<r.Date, r.Agegroup_pretty>> : r \in Rows(t)}, NaT)))

\* The Deaths values of a table in ascending order.
SortedDeaths(s) ==
    LET o == Reorder(s, {p \in Pairs(Len(s)) :
                 \/ s[p[1]].Deaths < s[p[2]].Deaths
                 \/ s[p[1]].Deaths = s[p[2]].Deaths /\ p[1] < p[2]})
    IN  [k \in 1..Len(s) |-> o[k].Deaths]

\* ts["Deaths"].median(): <<>> stands for NaN (no values); otherwise the two
\* middle values, whose mean the median is (the same value twice when the
\* count is odd).
Median(s) ==
    LET v == SortedDeaths(s)
        n == Len(s)
    IN  IF n = 0 THEN <<>> ELSE << v[(n + 1) \div 2], v[(n \div 2) + 1] >>

\* ts["Deaths"].mode(): the most frequent values, ascending; empty for no values.
Mode(s) ==
    LET V == {s[i].Deaths : i \in 1..Len(s)}
        Count(v) == Cardinality({i \in 1..Len(s) : s[i].Deaths = v})
        M == {v \in V : \A w \in V : Count(v) >= Count(w)}
    IN  [k \in 1..Cardinality(M) |->
            CHOOSE v \in M : Cardinality({w \in M : w < v}) = k - 1]

\* mode_values.iloc[0] if not mode_values.empty else None
ModeDeaths(m) == IF m # <<>> THEN m[1] ELSE None

\* The traces of fig_ts: the lines, the median, and the mode unless it is None.
FigTsTraces(m) ==
    {"Deaths by age group", "Median deaths"} \cup
        (IF m # None THEN {"Mode deaths"} ELSE {})

\* The statistics paragraph formats mode_deaths with ",.0f": None has no such
\* format, and the f-string raises TypeError.
StatsMarkdownRaises(m) == m = None

(***************************************************************************)
(* Heatmap, country map, region bar chart.                                 *)
(***************************************************************************)
Heat(t) ==
    GroupBySum(t,
               [i \in 1..Len(t) |-> <<t[i].Year, t[i].Agegroup_pretty>>],
               PairRanks({<<r.Year, r.Agegroup_pretty>> : r \in Rows(t)}, NaT))

\* heat.pivot(index="Agegroup_pretty", columns="Year", values="Deaths"): the
\* cells that exist, by <<label, year>>.
Pivot(h) ==
    [c \in {<<h[i].key[2], h[i].key[1]>> : i \in 1..Len(h)} |->
        h[CHOOSE i \in 1..Len(h) : <<h[i].key[2], h[i].key[1]>> = c].Deaths]

CountrySums(t) ==
    GroupBySum(t,
               [i \in 1..Len(t) |-> t[i].Country],
               StrRanks({r.Country : r \in Rows(t)} \ {NaN}))


\* MapData without the "Unknown" mask.
MapDataKeepsUnknown(t) == SelectSeq(CountrySums(t), LAMBDA g : g.key # NaN)

\* map_data.dropna(subset=["Country"]), then the rows whose Country is not "Unknown".
MapData(t) ==
    SelectSeq(SelectSeq(CountrySums(t), LAMBDA g : g.key # NaN),
              LAMBDA g : g.key # "Unknown")

RegionDeaths(s, t) ==
    FrameSortValuesDesc(
        GroupBySum(t,
                   [i \in 1..Len(t) |-> RegionLabel(s, t[i])],
                   StrRanks({RegionLabel(s, r) : r \in Rows(t)} \ {NaN})))

(***************************************************************************)
(* What a run puts on the page.                                            *)
(***************************************************************************)
Element(kind, shows) == [element |-> kind, shows |-> shows]

EmptyStateError == Element("error", {"No data for the current filter selection"})
KpiMetrics == Element("metric", {"total_deaths", "recent_deaths", "top_agegroup"})
TsChart(m) == Element("plotly_chart", FigTsTraces(m))
TsLines == Element("plotly_chart", {"Deaths by age group"})
TsStats == Element("markdown", {"Median monthly deaths", "Mode monthly deaths"})
UncaughtTypeError == Element("exception", {"TypeError"})
HeatmapFigure == Element("pyplot", {"heatmap"})
MapWarning == Element("warning", {"No country-level data available"})
Choropleth == Element("plotly_chart", {"choropleth"})
RegionBarFigure == Element("pyplot", {"region bar chart"})

(***************************************************************************)
(* The state machine.                                                      *)
(***************************************************************************)
\* The names of a run before it has assigned them.
Unassigned ==
    /\ filtered = <<>>
    /\ total_deaths = None /\ recent_deaths = None
    /\ age_summary = <<>> /\ top_agegroup = NaN /\ top_age_deaths = None
    /\ ts = <<>> /\ median_deaths = <<>> /\ mode_values = <<>> /\ mode_deaths = None
    /\ heat = <<>> /\ pivot = <<>> /\ map_data = <<>> /\ region_deaths = <<>>
    /\ rendered = <<>>

Init ==
    /\ script \in Scripts
    /\ csv \in CsvFiles
    /\ df = <<>>
    /\ sort_impl \in {"nargsort", "argsort_reversed"}
    /\ region_selected = AllRegions
    /\ income_selected = AllIncome
    /\ countries_selected = {}
    /\ agegroups_selected = {}
    /\ year_range = <<0, 0>>
    /\ pc = "load"
    /\ Unassigned

\* First run: load_data() and the sidebar at its defaults.
LoadData ==
    /\ pc = "load"
    /\ df' = load_data(script, csv)
    /\ region_selected' = AllRegions
    /\ income_selected' = AllIncome
    /\ countries_selected' = {}
    /\ agegroups_selected' = agegroups_all(df')
    /\ year_range' = <<year_min(df'), year_max(df')>>
    /\ pc' = "filter"
    /\ UNCHANGED <<script, csv, sort_impl, filtered, kpi, series, charts, rendered>>

ApplyFilters ==
    /\ pc = "filter"
    /\ filtered' = ApplyFilterMasks(script, df, region_selected, income_selected,
                                    countries_selected, agegroups_selected, year_range)
    /\ pc' = "check"
    /\ UNCHANGED <<script, csv, df, sort_impl, controls, kpi, series, charts, rendered>>


\* The emptiness check left out.
NeverStops(f) == FALSE

\* if filtered.empty: st.error(...); st.stop()
StopsOnEmpty(f) == f = <<>>

EmptyCheck ==
    /\ pc = "check"
    /\ IF StopsOnEmpty(filtered)
       THEN /\ rendered' = Append(rendered, EmptyStateError)
            /\ pc' = "stopped"
       ELSE /\ rendered' = rendered
            /\ pc' = "kpi"
    /\ UNCHANGED <<script, csv, df, sort_impl, controls, filtered, kpi, series, charts>>

KpiMetricsStep ==
    /\ pc = "kpi"
    /\ total_deaths' = SumDeaths(filtered)
    /\ recent_deaths' = SumDeaths(Recent(filtered))
    /\ age_summary' = AgeSummary(filtered, sort_impl)
    /\ top_agegroup' = age_summary'[1].key
    /\ top_age_deaths' = age_summary'[1].Deaths
    /\ rendered' = Append(rendered, KpiMetrics)
    /\ pc' = "ts"
    /\ UNCHANGED <<script, csv, df, sort_impl, controls, filtered, series, charts>>

\* code.py: the series, its median and mode, the chart, the statistics paragraph.
\* covid.py: the series and the chart of its lines.
TimeSeriesStep ==
    /\ pc = "ts"
    /\ ts' = TimeSeries(filtered)
    /\ IF script = "code.py"
       THEN /\ median_deaths' = Median(ts')
            /\ mode_values' = Mode(ts')
            /\ mode_deaths' = ModeDeaths(mode_values')
            /\ IF StatsMarkdownRaises(mode_deaths')
               THEN /\ rendered' = rendered \o
                                      <<TsChart(mode_deaths'), UncaughtTypeError>>
                    /\ pc' = "error"
               ELSE /\ rendered' = rendered \o <<TsChart(mode_deaths'), TsStats>>
                    /\ pc' = "heat"
       ELSE /\ UNCHANGED <<median_deaths, mode_values, mode_deaths>>
            /\ rendered' = Append(rendered, TsLines)
            /\ pc' = "heat"
    /\ UNCHANGED <<script, csv, df, sort_impl, controls, filtered, kpi, charts>>

HeatmapStep ==
    /\ pc = "heat"
    /\ heat' = Heat(filtered)
    /\ pivot' = Pivot(heat')
    /\ rendered' = Append(rendered, HeatmapFigure)
    /\ pc' = IF script = "code.py" THEN "map" ELSE "region"
    /\ UNCHANGED <<script, csv, df, sort_impl, controls, filtered, kpi, series,
                   map_data, region_deaths>>

CountryMapStep ==
    /\ pc = "map"
    /\ map_data' = MapData(filtered)
    /\ rendered' = Append(rendered, IF map_data' = <<>> THEN MapWarning ELSE Choropleth)
    /\ pc' = "region"
    /\ UNCHANGED <<script, csv, df, sort_impl, controls, filtered, kpi, series,
                   heat, pivot, region_deaths>>

RegionBarStep ==
    /\ pc = "region"
    /\ region_deaths' = RegionDeaths(script, filtered)
    /\ rendered' = Append(rendered, RegionBarFigure)
    /\ pc' = "done"
    /\ UNCHANGED <<script, csv, df, sort_impl, controls, filtered, kpi, series,
                   heat, pivot, map_data>>

\* A run has ended: at the end of the script, at st.stop(), or on an exception.
RunEnded == pc \in {"done", "stopped", "error"}

\* A change of a control re-runs the script from the top: load_data() returns
\* the cached dataset and every name of the run starts unassigned.
Rerun ==
    /\ RunEnded
    /\ pc' = "filter"
    /\ filtered' = <<>>
    /\ total_deaths' = None /\ recent_deaths' = None
    /\ age_summary' = <<>> /\ top_agegroup' = NaN /\ top_age_deaths' = None
    /\ ts' = <<>> /\ median_deaths' = <<>> /\ mode_values' = <<>> /\ mode_deaths' = None
    /\ heat' = <<>> /\ pivot' = <<>> /\ map_data' = <<>> /\ region_deaths' = <<>>
    /\ rendered' = <<>>
    /\ UNCHANGED <<script, csv, df, sort_impl>>

SelectRegion ==
    /\ RunEnded
    /\ \E r \in regions(script, df) \ {region_selected} : region_selected' = r
    /\ UNCHANGED <<income_selected, countries_selected, agegroups_selected, year_range>>
    /\ Rerun

SelectIncome ==
    /\ RunEnded
    /\ \E w \in income_levels(df) \ {income_selected} : income_selected' = w
    /\ UNCHANGED <<region_selected, countries_selected, agegroups_selected, year_range>>
    /\ Rerun

\* The multiselects change by one entry at a time.
SelectCountries ==
    /\ RunEnded
    /\ \E c \in countries_all(df) :
          countries_selected' = IF c \in countries_selected
                                THEN countries_selected \ {c}
                                ELSE countries_selected \cup {c}
    /\ UNCHANGED <<region_selected, income_selected, agegroups_selected, year_range>>
    /\ Rerun

SelectAgegroups ==
    /\ RunEnded
    /\ \E a \in agegroups_all(df) :
          agegroups_selected' = IF a \in agegroups_selected
                                THEN agegroups_selected \ {a}
                                ELSE agegroups_selected \cup {a}
    /\ UNCHANGED <<region_selected, income_selected, countries_selected, year_range>>
    /\ Rerun

SlideYearRange ==
    /\ RunEnded
    /\ \E yr \in year_ranges(df) \ {year_range} : year_range' = yr
    /\ UNCHANGED <<region_selected, income_selected, countries_selected, agegroups_selected>>
    /\ Rerun

Next ==
    \/ LoadData
    \/ ApplyFilters
    \/ EmptyCheck
    \/ KpiMetricsStep
    \/ TimeSeriesStep
    \/ HeatmapStep
    \/ CountryMapStep
    \/ RegionBarStep
    \/ SelectRegion
    \/ SelectIncome
    \/ SelectCountries
    \/ SelectAgegroups
    \/ SlideYearRange

Spec == Init /\ [][Next]_vars

(***************************************************************************)
(* Properties.                                                             *)
(***************************************************************************)
\* The run has computed its filtered view.
FilterComputed == pc \notin {"load", "filter"}

\* The run has executed the KPI block.
KpiComputed == pc \in {"ts", "heat", "map", "region", "done", "error"}

\* The run has executed the time-series block (to its end, or to an exception).
SeriesComputed == pc \in {"heat", "map", "region", "done", "error"}

RegionPredicate(r) ==
    region_selected = AllRegions \/ RegionLabel(script, r) = region_selected
IncomePredicate(r) ==
    income_selected = AllIncome \/ r.Wb_income = income_selected
CountryPredicate(r) ==
    countries_selected = {} \/ r.Country \in countries_selected
YearPredicate(r) ==
    year_range[1] <= r.Year /\ r.Year <= year_range[2]

\* The age predicate as the specification words it: membership, whatever the set.
AgeMembership(r) == r.Agegroup_pretty \in agegroups_selected
\* The age predicate with the empty selection unrestricted, like the countries.
AgePredicate(r) == agegroups_selected = {} \/ AgeMembership(r)

C3_EmptyViewStops ==
    /\ (FilterComputed /\ filtered = <<>>) => pc \in {"check", "stopped"}
    /\ pc \in {"kpi", "ts", "heat", "map", "region", "done", "error"} =>
          filtered # <<>>
    /\ pc = "stopped" =>
          /\ filtered = <<>>
          /\ rendered = <<EmptyStateError>>
          /\ total_deaths = None /\ recent_deaths = None /\ top_age_deaths = None
          /\ age_summary = <<>> /\ ts = <<>> /\ heat = <<>>
          /\ map_data = <<>> /\ region_deaths = <<>>

\* C3, the step itself: the check leads an empty view to the stop and nowhere
\* else, and a stopped run does nothing until a control changes.
C3_StopIsFinal ==
    [][/\ (pc = "check" /\ filtered = <<>>) => pc' = "stopped"
       /\ pc = "stopped" => pc' = "filter"]_vars

\* A run stopped on an empty view, by filters none of which is empty-handed
\* alone (the dataset has rows for the region and for the country selected).
C3_Witness ==
    /\ pc = "stopped"
    /\ region_selected # AllRegions
    /\ countries_selected # {}

\* The rows of a table with the given value in a column.
WithAge(t, a) == SelectSeq(t, LAMBDA r : r.Agegroup_pretty = a)
WithCountry(t, c) == SelectSeq(t, LAMBDA r : r.Country = c)
WithYearAge(t, y, a) == SelectSeq(t, LAMBDA r : r.Year = y /\ r.Agegroup_pretty = a)

\* C4: at the end of a run, the Deaths of the Region Totals table add up to
\* the KPI total_deaths of the same filtered view (no filtered row, whatever
\* its region code, is left out of the Region Totals).
C4_RegionTotalsSumToTotal ==
    pc = "done" => SumDeaths(region_deaths) = total_deaths

\* C5: once the time series is computed, its grouped sums add up to the KPI
\* total_deaths of the same filtered view, also when rows have an unset date.
C5_TimeSeriesSumsToTotal ==
    SeriesComputed => SumDeaths(ts) = total_deaths

\* Every control at its least restrictive value.
MaximallyUnrestricted ==
    /\ region_selected = AllRegions
    /\ income_selected = AllIncome
    /\ countries_selected = {}
    /\ agegroups_selected = agegroups_all(df)
    /\ year_range = <<year_min(df), year_max(df)>>

\* C6 as stated: the deaths of the filtered view are at most those of the
\* dataset, and equal them if and only if the controls are maximally
\* unrestricted.
C6_FilteredSumAsStated ==
    FilterComputed =>
        /\ SumDeaths(filtered) <= SumDeaths(df)
        /\ (SumDeaths(filtered) = SumDeaths(df)) <=> MaximallyUnrestricted

\* C6, amended: the deaths of the filtered view are at most those of the
\* dataset, and equal them whenever the controls are maximally unrestricted
\* (a restriction that removes no row, or only rows without deaths, yields
\* equality as well).
C6_FilteredSumBounded ==
    FilterComputed =>
        /\ SumDeaths(filtered) <= SumDeaths(df)
        /\ MaximallyUnrestricted => SumDeaths(filtered) = SumDeaths(df)

\* An unrestricted run over a dataset of several rows, each with deaths.
C6_Witness ==
    /\ FilterComputed
    /\ MaximallyUnrestricted
    /\ Len(df) >= 2
    /\ \A i \in 1..Len(df) : df[i].Deaths > 0

\* C7: when a run has ended past the empty-view check, every filtered row
\* whose month is no month has an unset date and has its deaths in
\* total_deaths, in the sum of its age group, in the heatmap cell of its year
\* and age group and (code.py, for a country that can be placed on the map)
\* in the total of its country; and the loader keeps every source row.
C7_InvalidMonthRowCounted ==
    /\ pc # "load" =>
          /\ Len(df) = Len(csv)
          /\ \A i \in 1..Len(csv) :
                ~(csv[i].Month \in 1..12) =>
                    /\ df[i].Date = NaT
                    /\ df[i].Country = csv[i].Country /\ df[i].Year = csv[i].Year
          /\ FilterComputed =>
                \A i \in 1..Len(df) :
                    (/\ df[i].Date = NaT
                     /\ RegionPredicate(df[i]) /\ IncomePredicate(df[i])
                     /\ CountryPredicate(df[i]) /\ AgePredicate(df[i])
                     /\ YearPredicate(df[i]))
                        => df[i] \in Rows(filtered)
    /\ pc \in {"done", "error"} =>
          \A r \in Rows(filtered) :
              r.Date = NaT =>
                  /\ total_deaths =
                        SumDeaths(SelectSeq(filtered, LAMBDA x : x.Date # NaT))
                      + SumDeaths(SelectSeq(filtered, LAMBDA x : x.Date = NaT))
                  /\ \E i \in 1..Len(age_summary) :
                        /\ age_summary[i].key = r.Agegroup_pretty
                        /\ age_summary[i].Deaths =
                              SumDeaths(WithAge(filtered, r.Agegroup_pretty))
                  /\ <<r.Agegroup_pretty, r.Year>> \in DOMAIN pivot
                  /\ pivot[<<r.Agegroup_pretty, r.Year>>] =
                        SumDeaths(WithYearAge(filtered, r.Year, r.Agegroup_pretty))
                  /\ (script = "code.py" /\ r.Country \notin {NaN, "Unknown"}) =>
                        \E i \in 1..Len(map_data) :
                            /\ map_data[i].key = r.Country
                            /\ map_data[i].Deaths =
                                  SumDeaths(WithCountry(filtered, r.Country))

\* C8: the Country Totals table of a run has no row for a missing country or
\* for "Unknown", and for every other country of the filtered view exactly
\* one row, holding the sum of that country's deaths in the view.
C8_CountryTotals ==
    (script = "code.py" /\ pc \in {"region", "done"}) =>
        /\ \A i \in 1..Len(map_data) : map_data[i].key \notin {NaN, "Unknown"}
        /\ \A c \in {r.Country : r \in Rows(filtered)} \ {NaN, "Unknown"} :
              /\ Cardinality({i \in 1..Len(map_data) : map_data[i].key = c}) = 1
              /\ \A i \in 1..Len(map_data) :
                    map_data[i].key = c =>
                        map_data[i].Deaths = SumDeaths(WithCountry(filtered, c))

\* A view with an "Unknown" row that has deaths, beside a row of a real country.
C8_Witness ==
    /\ script = "code.py" /\ pc = "done"
    /\ \E r \in Rows(filtered) : r.Country = "Unknown" /\ r.Deaths > 0
    /\ map_data # <<>>

\* The age labels of the view with the largest sum of deaths.
TopLabels(t) ==
    {a \in {r.Agegroup_pretty : r \in Rows(t)} :
        \A b \in {r.Agegroup_pretty : r \in Rows(t)} :
            SumDeaths(WithAge(t, a)) >= SumDeaths(WithAge(t, b))}

\* C9: after the KPI block, top_agegroup is a label of the view whose deaths
\* are at least those of every other label, top_age_deaths is that label's
\* sum, and among several labels with the largest sum one fixed label is
\* taken (the first in label order, or the last with a pandas that reverses
\* an ascending sort), the same for every run over that view.
C9_TopAgeGroup ==
    KpiComputed =>
        /\ top_agegroup \in TopLabels(filtered)
        /\ top_age_deaths = SumDeaths(WithAge(filtered, top_agegroup))
        /\ \A a \in TopLabels(filtered) :
              IF sort_impl = "nargsort"
              THEN StrRank(top_agegroup) <= StrRank(a)
              ELSE StrRank(top_agegroup) >= StrRank(a)

\* Two labels share the largest sum, which is not zero.
C9_Witness ==
    /\ KpiComputed
    /\ Cardinality(TopLabels(filtered)) = 2
    /\ top_age_deaths > 0

\* C10: in code.py, when the mode set of the grouped series is empty, nothing
\* rendered shows a mode and the run goes on past the time-series view
\* without an exception.
C10_EmptyModeOmitted ==
    (script = "code.py" /\ SeriesComputed /\ mode_values = <<>>) =>
        /\ pc # "error"
        /\ \A i \in 1..Len(rendered) :
              /\ rendered[i].element # "exception"
              /\ "Mode deaths" \notin rendered[i].shows
              /\ "Mode monthly deaths" \notin rendered[i].shows

====
